---- MODULE Spec2Model ----
(***************************************************************************)
(* Model of export_dashboards.py: the transport client                    *)
(* (fetch_dashboards, fetch_dashboard_by_slug), the normalising exporter  *)
(* (export_dashboard_to_json) and the three modes of main().              *)
(*                                                                         *)
(* A Python dict is a sequence of <<key, value>> pairs with distinct keys *)
(* (dicts keep insertion order).  A decoded JSON value is a record        *)
(* [isNone, isdict, items]: None, a mapping with its items, or some other *)
(* JSON value (a list, a number) on which .get raises AttributeError.     *)
(***************************************************************************)
EXTENDS Integers, Sequences, FiniteSets, TLC

\* ------------------------------------------------------------- bounds
MaxSlugs == 2        \* most slugs given to --dashboard
MaxList == 2         \* most summaries the list endpoint returns
MaxTime == 2         \* the clock runs over ticks 0..MaxTime
TicksPerSecond == 2  \* clock ticks within one second of the file name's timestamp
MaxKeys == 3         \* most keys of a detail handed to the normaliser
MaxNames == 3        \* most summaries handed to the name filter

\* ------------------------------------------------------------- dicts
Keys(d) == {d[n][1] : n \in 1..Len(d)}

Has(d, k) == k \in Keys(d)

\* d[k] for a key that is present
Lookup(d, k) == d[CHOOSE n \in 1..Len(d) : d[n][1] = k][2]

\* dict.get(k, default)
Get(d, k, default) == IF Has(d, k) THEN Lookup(d, k) ELSE default

\* dict.pop(k): the dict without key k, the other items keeping their order
Pop(d, k) == SelectSeq(d, LAMBDA kv : kv[1] # k)

\* the keys of d in order
KeyOrder(d) == [n \in 1..Len(d) |-> d[n][1]]

None == [isNone |-> TRUE, isdict |-> FALSE, items |-> <<>>]

Dict(items) == [isNone |-> FALSE, isdict |-> TRUE, items |-> items]

NotDict == [isNone |-> FALSE, isdict |-> FALSE, items |-> <<>>]

\* ------------------------------------------------------------- normaliser
exclude_fields_without_system ==
    {"id", "created", "modified", "last_visited", "favorite",
     "is_homepage", "is_default_home"}

exclude_fields ==
    {"id", "created", "modified", "last_visited", "favorite",
     "is_homepage", "is_default_home", "system"}

field_order_labels_first ==
    <<"labels", "permissions", "queries", "name", "slug", "sections",
      "visible", "controls", "description", "enabled">>

field_order ==
    <<"enabled", "permissions", "queries", "name", "slug", "sections",
      "visible", "controls", "description", "labels">>

\* export_data = {k: v for k, v in dashboard.items() if k not in exclude_fields}
export_data(dashboard) ==
    SelectSeq(dashboard, LAMBDA kv : kv[1] \notin exclude_fields)

\* the for loop over field_order popping from export_data, then
\* ordered_data.update(export_data) with what is left
RECURSIVE reorder(_, _, _)
reorder(n, ordered, remaining) ==
    IF n > Len(field_order)
    THEN ordered \o remaining
    ELSE IF Has(remaining, field_order[n])
         THEN reorder(n + 1,
                      Append(ordered, <<field_order[n], Lookup(remaining, field_order[n])>>),
                      Pop(remaining, field_order[n]))
         ELSE reorder(n + 1, ordered, remaining)

\* the mapping handed to json.dump
ordered_data(dashboard) == reorder(1, <<>>, export_data(dashboard))

\* strftime("%Y-%m-%dT%H-%M-%S") keeps whole seconds
timestamp_str(t) == t \div TicksPerSecond

\* f"{timestamp_str}-{slug}.json" with slug = dashboard.get('slug', 'unknown')
filename_without_default(dashboard, t) ==
    <<timestamp_str(t), Get(dashboard, "slug", "None")>>

filename(dashboard, t) == <<timestamp_str(t), Get(dashboard, "slug", "unknown")>>

\* ------------------------------------------------------------- transport client
\* JSON literals false / null / "" as they test in `not x`
Falsy == {"false", "null", ""}

StatusCodes == {200, 401, 403, 404, 500}

\* a response of the detail endpoint; raised = requests.get raised a
\* RequestException, decodes = response.json() parses, value = the parsed body
DetailResponse(status, raised, decodes, value) ==
    [status |-> status, raised |-> raised, decodes |-> decodes, value |-> value]

\* a response of the list endpoint; islist = the parsed body is a list
ListResponse(status, raised, decodes, islist, list) ==
    [status |-> status, raised |-> raised, decodes |-> decodes,
     islist |-> islist, list |-> list]

NoneList == [isNone |-> TRUE, list |-> <<>>]

SomeList(list) == [isNone |-> FALSE, list |-> list]

NoNames == [isNone |-> TRUE, names |-> {}]

\* [d for d in dashboards if d.get('name') in dashboard_names]
name_filter(dashboards, dashboard_names) ==
    SelectSeq(dashboards,
              LAMBDA d : Has(d.items, "name") /\ Lookup(d.items, "name") \in dashboard_names)

\* `if dashboard_names:` - neither None nor empty
filter_given(dashboard_names) ==
    ~dashboard_names.isNone /\ dashboard_names.names # {}

\* fetch_dashboards: None on a failure, else the (filtered) list
fetch_dashboards(resp, dashboard_names) ==
    IF resp.raised THEN NoneList
    ELSE IF resp.status = 401 THEN NoneList
    ELSE IF resp.status = 403 THEN NoneList
    ELSE IF resp.status >= 400 THEN NoneList
    ELSE IF ~resp.decodes THEN NoneList
    ELSE IF ~resp.islist THEN NoneList
    ELSE IF filter_given(dashboard_names)
         THEN SomeList(name_filter(resp.list, dashboard_names.names))
         ELSE SomeList(resp.list)

\* fetch_dashboard_by_slug: None on a failure, else the parsed body
fetch_dashboard_by_slug(resp) ==
    IF resp.raised THEN None
    ELSE IF resp.status = 401 THEN None
    ELSE IF resp.status = 403 THEN None
    ELSE IF resp.status = 404 THEN None
    ELSE IF resp.status >= 400 THEN None
    ELSE IF ~resp.decodes THEN None
    ELSE resp.value

\* ------------------------------------------------------------- the environment
Slugs == {"a", "b"}

\* details the detail endpoint serves for a slug: one carrying the slug, one
\* without a slug key
Details(slug) ==
    { <<<<"id", "v1">>, <<"labels", "v2">>, <<"slug", slug>>, <<"enabled", "v1">>>>,
      <<<<"owner", "v1">>, <<"system", "false">>, <<"name", "v2">>>> }

\* every answer of the detail endpoint: a transport error, an error status,
\* an undecodable body, JSON null, a non-object body, a detail
DetailResponses(slug) ==
    {DetailResponse(200, TRUE, FALSE, None), DetailResponse(200, FALSE, FALSE, None),
     DetailResponse(200, FALSE, TRUE, None), DetailResponse(200, FALSE, TRUE, NotDict)}
    \cup {DetailResponse(c, FALSE, TRUE, NotDict) : c \in StatusCodes \ {200}}
    \cup {DetailResponse(200, FALSE, TRUE, Dict(d)) : d \in Details(slug)}

\* summaries the list endpoint serves, and a list element that is no object
Summaries ==
    { Dict(<<<<"slug", "a">>, <<"system", "false">>>>),
      Dict(<<<<"name", "B">>, <<"slug", "b">>>>),
      Dict(<<<<"slug", "a">>, <<"system", "true">>>>),
      Dict(<<<<"slug", "">>, <<"system", "false">>>>),
      Dict(<<<<"name", "E">>, <<"system", "null">>>>),
      Dict(<<<<"name", "F">>, <<"system", "true">>>>),
      NotDict }

SummaryLists == UNION {[1..n -> Summaries] : n \in 0..MaxList}

ListResponses ==
    {ListResponse(200, TRUE, FALSE, FALSE, <<>>), ListResponse(200, FALSE, FALSE, FALSE, <<>>),
     ListResponse(200, FALSE, TRUE, FALSE, <<>>)}
    \cup {ListResponse(c, FALSE, TRUE, FALSE, <<>>) : c \in StatusCodes \ {200}}
    \cup {ListResponse(200, FALSE, TRUE, TRUE, l) : l \in SummaryLists}

\* ------------------------------------------------------------- state of a run
VARIABLES
    args_dashboard,       \* --dashboard: the slugs, <<>> when not given
    args_list_dashboards, \* --list-dashboards
    pc,                   \* where main() is
    now,                  \* the wall clock, in ticks
    dashboards,           \* what fetch_dashboards returned
    custom_dashboards,    \* the summaries bulk mode walks
    i,                    \* 1-based position of the for loop
    dashboard,            \* what fetch_dashboard_by_slug returned for the item
    filepath,             \* file name of the export call in progress
    result,               \* what export_dashboard_to_json returned
    success_count,
    failure_count,
    files,                \* the backup directory: records [name, complete, data]
    exit_code,            \* the process's exit status, -1 while it runs
    requests,             \* slugs sent to the detail endpoint, in order
    list_requests,        \* number of requests sent to the list endpoint
    exports,              \* export calls that reached open(): detail, tick, outcome
    summary_log,          \* the "Dashboard export completed" lines logged
    interrupted_in,       \* pc at which KeyboardInterrupt was raised, "none" if not
    nd, nout, npc,        \* normaliser alone: the detail, the output, applied?
    fl, fnames, fout, fpc \* name filter alone: response, filter, return value, applied?

vars == <<args_dashboard, args_list_dashboards, pc, now, dashboards, custom_dashboards,
          i, dashboard, filepath, result, success_count, failure_count, files,
          exit_code, requests, list_requests, exports, summary_log, interrupted_in,
          nd, nout, npc, fl, fnames, fout, fpc>>

mainvars == <<args_dashboard, args_list_dashboards, pc, now, dashboards, custom_dashboards,
              i, dashboard, filepath, result, success_count, failure_count, files,
              exit_code, requests, list_requests, exports, summary_log, interrupted_in>>

normvars == <<nd, nout, npc>>

filtervars == <<fl, fnames, fout, fpc>>

others == <<normvars, filtervars>>

NoFile == <<-1, "">>

\* state of main() at the `try:` of line 314
MainState(slugs, list_flag) ==
    /\ args_dashboard = slugs
    /\ args_list_dashboards = list_flag
    /\ pc = "start"
    /\ now = 0
    /\ dashboards = SomeList(<<>>)
    /\ custom_dashboards = <<>>
    /\ i = 1
    /\ dashboard = None
    /\ filepath = NoFile
    /\ result = FALSE
    /\ success_count = 0
    /\ failure_count = 0
    /\ files = {}
    /\ exit_code = -1
    /\ requests = <<>>
    /\ list_requests = 0
    /\ exports = <<>>
    /\ summary_log = <<>>
    /\ interrupted_in = "none"

MainInit ==
    \E slugs \in UNION {[1..n -> Slugs] : n \in 0..MaxSlugs}, list_flag \in BOOLEAN :
        MainState(slugs, list_flag)

MainIdle == MainState(<<>>, FALSE)

NormIdle == nd = <<>> /\ nout = <<>> /\ npc = "idle"

FilterIdle == fl = ListResponse(200, FALSE, TRUE, TRUE, <<>>) /\ fnames = NoNames
              /\ fout = NoneList /\ fpc = "idle"

\* ------------------------------------------------------------- main()
\* open(filepath, 'w'): the file is created, or truncated when it exists
open_w(dir, name) ==
    {f \in dir : f.name # name} \cup {[name |-> name, complete |-> FALSE, data |-> <<>>]}

\* json.dump ran to the end and the file was closed
dump(dir, name, data) ==
    {f \in dir : f.name # name} \cup {[name |-> name, complete |-> TRUE, data |-> data]}

\* sys.exit(code)
Exit(code) == pc' = "done" /\ exit_code' = code

count_export_drops_failure(ok, counts) ==
    IF ok THEN <<counts[1] + 1, counts[2]>> ELSE counts

\* if export_dashboard_to_json(...): success_count += 1  else: failure_count += 1
count_export(ok, counts) ==
    IF ok THEN <<counts[1] + 1, counts[2]>> ELSE <<counts[1], counts[2] + 1>>

exit_status_always_zero(failures) == 0

\* if failure_count > 0: sys.exit(1), else exit status 0
exit_status(failures) == IF failures > 0 THEN 1 ELSE 0

custom_keeps_all(list) == list

\* [d for d in dashboards if not d.get('system', False)]
custom(list) ==
    SelectSeq(list, LAMBDA d : Get(d.items, "system", "false") \in Falsy)

list_exit_empty_is_failure(ds) ==
    IF ds.isNone \/ ds.list = <<>> THEN 1
    ELSE IF \A n \in 1..Len(ds.list) : ds.list[n].isdict THEN 0 ELSE 1

\* exit status of list mode: 1 for None, 0 for an empty list, 0 after the
\* table; x.get on an element that is no dict raises, caught at line 435
list_exit(ds) ==
    IF ds.isNone THEN 1
    ELSE IF ds.list = <<>> THEN 0
    ELSE IF \A n \in 1..Len(ds.list) : ds.list[n].isdict THEN 0 ELSE 1

\* --dashboard given: lines 316-324
SelectiveStart ==
    /\ pc = "start" /\ args_dashboard # <<>>
    /\ success_count' = 0 /\ failure_count' = 0 /\ i' = 1
    /\ pc' = "selective"
    /\ UNCHANGED <<args_dashboard, args_list_dashboards, now, dashboards, custom_dashboards,
                   dashboard, filepath, result, files, exit_code, requests, list_requests,
                   exports, summary_log, interrupted_in>>
    /\ UNCHANGED others

\* one turn of the loop of lines 326-332: the detail request and its None test
SelectiveFetch ==
    /\ pc = "selective" /\ i <= Len(args_dashboard)
    /\ \E resp \in DetailResponses(args_dashboard[i]) :
         LET d == fetch_dashboard_by_slug(resp) IN
         /\ requests' = Append(requests, args_dashboard[i])
         /\ IF d.isNone
            THEN /\ failure_count' = failure_count + 1
                 /\ i' = i + 1
                 /\ UNCHANGED <<pc, dashboard>>
            ELSE /\ dashboard' = d
                 /\ pc' = "selective_export"
                 /\ UNCHANGED <<failure_count, i>>
    /\ UNCHANGED <<args_dashboard, args_list_dashboards, now, dashboards, custom_dashboards,
                   filepath, result, success_count, files, exit_code, list_requests,
                   exports, summary_log, interrupted_in>>
    /\ UNCHANGED others

\* export_dashboard_to_json up to open(): lines 163-197.  dashboard.get on a
\* value that is no dict raises and open() may raise; both return False
ExportOpen ==
    /\ pc \in {"selective_export", "bulk_export"}
    /\ \/ /\ ~dashboard.isdict
          /\ result' = FALSE
          /\ pc' = IF pc = "selective_export" THEN "selective_count" ELSE "bulk_count"
          /\ UNCHANGED <<filepath, files, exports>>
       \/ /\ dashboard.isdict
          /\ filepath' = filename(dashboard.items, now)
          /\ \/ /\ result' = FALSE
                /\ pc' = IF pc = "selective_export" THEN "selective_count" ELSE "bulk_count"
                /\ UNCHANGED <<files, exports>>
             \/ /\ files' = open_w(files, filepath')
                /\ exports' = Append(exports, [detail |-> dashboard.items, at |-> now,
                                               outcome |-> "open"])
                /\ pc' = IF pc = "selective_export" THEN "selective_write" ELSE "bulk_write"
                /\ UNCHANGED result
    /\ UNCHANGED <<args_dashboard, args_list_dashboards, now, dashboards, custom_dashboards,
                   i, dashboard, success_count, failure_count, exit_code, requests,
                   list_requests, summary_log, interrupted_in>>
    /\ UNCHANGED others

\* export_dashboard_to_json from json.dump to its return: lines 198-209.  A
\* write error (IOError) leaves the opened file as it is and returns False
ExportWrite ==
    /\ pc \in {"selective_write", "bulk_write"}
    /\ \/ /\ files' = dump(files, filepath, ordered_data(dashboard.items))
          /\ exports' = [exports EXCEPT ![Len(exports)].outcome = "ok"]
          /\ result' = TRUE
       \/ /\ exports' = [exports EXCEPT ![Len(exports)].outcome = "failed"]
          /\ result' = FALSE
          /\ UNCHANGED files
    /\ pc' = IF pc = "selective_write" THEN "selective_count" ELSE "bulk_count"
    /\ UNCHANGED <<args_dashboard, args_list_dashboards, now, dashboards, custom_dashboards,
                   i, dashboard, filepath, success_count, failure_count, exit_code,
                   requests, list_requests, summary_log, interrupted_in>>
    /\ UNCHANGED others

\* lines 334-337: count the export's return value, next slug
SelectiveCount ==
    /\ pc = "selective_count"
    /\ success_count' = count_export(result, <<success_count, failure_count>>)[1]
    /\ failure_count' = count_export(result, <<success_count, failure_count>>)[2]
    /\ i' = i + 1
    /\ pc' = "selective"
    /\ UNCHANGED <<args_dashboard, args_list_dashboards, now, dashboards, custom_dashboards,
                   dashboard, filepath, result, files, exit_code, requests, list_requests,
                   exports, summary_log, interrupted_in>>
    /\ UNCHANGED others

\* lines 339-345: the loop is over; the summary line and the exit status
SelectiveFinish ==
    /\ pc = "selective" /\ i > Len(args_dashboard)
    /\ summary_log' = Append(summary_log, <<success_count, failure_count>>)
    /\ Exit(exit_status(failure_count))
    /\ UNCHANGED <<args_dashboard, args_list_dashboards, now, dashboards, custom_dashboards,
                   i, dashboard, filepath, result, success_count, failure_count, files,
                   requests, list_requests, exports, interrupted_in>>
    /\ UNCHANGED others

\* --list-dashboards: lines 348-379
ListDashboards ==
    /\ pc = "start" /\ args_dashboard = <<>> /\ args_list_dashboards
    /\ \E resp \in ListResponses :
         /\ dashboards' = fetch_dashboards(resp, NoNames)
         /\ list_requests' = list_requests + 1
         /\ Exit(list_exit(dashboards'))
    /\ UNCHANGED <<args_dashboard, args_list_dashboards, now, custom_dashboards, i, dashboard,
                   filepath, result, success_count, failure_count, files, requests,
                   exports, summary_log, interrupted_in>>
    /\ UNCHANGED others

\* no action given: lines 382-404, up to the loop
BulkStart ==
    /\ pc = "start" /\ args_dashboard = <<>> /\ ~args_list_dashboards
    /\ \E resp \in ListResponses :
         /\ dashboards' = fetch_dashboards(resp, NoNames)
         /\ list_requests' = list_requests + 1
         /\ IF dashboards'.isNone
            THEN Exit(1) /\ UNCHANGED <<custom_dashboards, success_count, failure_count, i>>
            ELSE IF \E n \in 1..Len(dashboards'.list) : ~dashboards'.list[n].isdict
            THEN \* d.get raises AttributeError, caught at line 435
                 Exit(1) /\ UNCHANGED <<custom_dashboards, success_count, failure_count, i>>
            ELSE /\ custom_dashboards' = custom(dashboards'.list)
                 /\ IF custom_dashboards' = <<>>
                    THEN Exit(0) /\ UNCHANGED <<success_count, failure_count, i>>
                    ELSE /\ success_count' = 0 /\ failure_count' = 0 /\ i' = 1
                         /\ pc' = "bulk"
                         /\ UNCHANGED exit_code
    /\ UNCHANGED <<args_dashboard, args_list_dashboards, now, dashboard, filepath, result,
                   files, requests, exports, summary_log, interrupted_in>>
    /\ UNCHANGED others

\* one turn of the loop of lines 406-418: the slug test, the detail request
BulkFetch ==
    /\ pc = "bulk" /\ i <= Len(custom_dashboards)
    /\ LET slug == Get(custom_dashboards[i].items, "slug", "null") IN
       IF slug \in Falsy
       THEN /\ failure_count' = failure_count + 1
            /\ i' = i + 1
            /\ UNCHANGED <<pc, dashboard, requests>>
       ELSE \E resp \in DetailResponses(slug) :
              LET d == fetch_dashboard_by_slug(resp) IN
              /\ requests' = Append(requests, slug)
              /\ IF d.isNone
                 THEN /\ failure_count' = failure_count + 1
                      /\ i' = i + 1
                      /\ UNCHANGED <<pc, dashboard>>
                 ELSE /\ dashboard' = d
                      /\ pc' = "bulk_export"
                      /\ UNCHANGED <<failure_count, i>>
    /\ UNCHANGED <<args_dashboard, args_list_dashboards, now, dashboards, custom_dashboards,
                   filepath, result, success_count, files, exit_code, list_requests,
                   exports, summary_log, interrupted_in>>
    /\ UNCHANGED others

\* lines 420-423: count the export's return value, next summary
BulkCount ==
    /\ pc = "bulk_count"
    /\ success_count' = count_export(result, <<success_count, failure_count>>)[1]
    /\ failure_count' = count_export(result, <<success_count, failure_count>>)[2]
    /\ i' = i + 1
    /\ pc' = "bulk"
    /\ UNCHANGED <<args_dashboard, args_list_dashboards, now, dashboards, custom_dashboards,
                   dashboard, filepath, result, files, exit_code, requests, list_requests,
                   exports, summary_log, interrupted_in>>
    /\ UNCHANGED others

\* lines 425-430: the loop is over; the summary line and the exit status
BulkFinish ==
    /\ pc = "bulk" /\ i > Len(custom_dashboards)
    /\ summary_log' = Append(summary_log, <<success_count, failure_count>>)
    /\ Exit(exit_status(failure_count))
    /\ UNCHANGED <<args_dashboard, args_list_dashboards, now, dashboards, custom_dashboards,
                   i, dashboard, filepath, result, success_count, failure_count, files,
                   requests, list_requests, exports, interrupted_in>>
    /\ UNCHANGED others

\* lines 432-434: SIGINT raises KeyboardInterrupt in the main thread at
\* whatever statement is running; no handler below main() catches it
\* (export_dashboard_to_json catches Exception, not BaseException)
KeyboardInterrupt ==
    /\ pc # "done"
    /\ interrupted_in' = pc
    /\ Exit(130)
    /\ UNCHANGED <<args_dashboard, args_list_dashboards, now, dashboards, custom_dashboards,
                   i, dashboard, filepath, result, success_count, failure_count, files,
                   requests, list_requests, exports, summary_log>>
    /\ UNCHANGED others

\* the wall clock read by datetime.now() at line 165
Tick ==
    /\ pc # "done" /\ now < MaxTime
    /\ now' = now + 1
    /\ UNCHANGED <<args_dashboard, args_list_dashboards, pc, dashboards, custom_dashboards,
                   i, dashboard, filepath, result, success_count, failure_count, files,
                   exit_code, requests, list_requests, exports, summary_log, interrupted_in>>
    /\ UNCHANGED others

Init == MainInit /\ NormIdle /\ FilterIdle

Next ==
    \/ SelectiveStart \/ SelectiveFetch \/ ExportOpen \/ ExportWrite
    \/ SelectiveCount \/ SelectiveFinish \/ ListDashboards
    \/ BulkStart \/ BulkFetch \/ BulkCount \/ BulkFinish
    \/ KeyboardInterrupt \/ Tick

Spec == Init /\ [][Next]_vars

\* ------------------------------------------------------------- the normaliser alone
\* every key the normaliser names, and two it does not
NormKeys ==
    {"id", "created", "modified", "last_visited", "favorite", "is_homepage",
     "is_default_home", "system", "enabled", "permissions", "queries", "name", "slug",
     "sections", "visible", "controls", "description", "labels", "theme", "owner"}

\* the value at position n of a detail: each item has a value of its own
ValueAt == <<"v1", "v2", "v3", "v4", "v5", "v6">>

\* dicts of at most MaxKeys items: the keys are distinct
NormDetails ==
    { [n \in DOMAIN ks |-> <<ks[n], ValueAt[n]>>] :
        ks \in {f \in UNION {[1..m -> NormKeys] : m \in 0..MaxKeys} :
                  \A a, b \in DOMAIN f : a # b => f[a] # f[b]} }

NormInit == nd \in NormDetails /\ nout = <<>> /\ npc = "idle"

\* lines 171-194 of export_dashboard_to_json applied to nd
Normalize ==
    /\ npc = "idle"
    /\ nout' = ordered_data(nd)
    /\ npc' = "done"
    /\ UNCHANGED <<nd, mainvars, filtervars>>

InitNormalize == MainIdle /\ NormInit /\ FilterIdle

SpecNormalize == InitNormalize /\ [][Normalize]_vars

\* ------------------------------------------------------------- the name filter alone
FilterSummaries ==
    { Dict(<<<<"name", "A">>, <<"slug", "a">>>>),
      Dict(<<<<"name", "B">>, <<"slug", "b">>>>),
      Dict(<<<<"slug", "c">>, <<"name", "C">>>>),
      Dict(<<<<"slug", "d">>>>) }

FilterLists == UNION {[1..n -> FilterSummaries] : n \in 0..MaxNames}

FilterNames ==
    {NoNames} \cup {[isNone |-> FALSE, names |-> S] : S \in SUBSET {"A", "B", "Z"}}

FilterInit ==
    /\ fl \in {ListResponse(200, FALSE, TRUE, TRUE, l) : l \in FilterLists}
              \cup {ListResponse(500, FALSE, TRUE, FALSE, <<>>),
                    ListResponse(200, FALSE, TRUE, FALSE, <<>>)}
    /\ fnames \in FilterNames
    /\ fout = NoneList
    /\ fpc = "idle"

\* fetch_dashboards(dashboard_names=fnames) against the response fl
ApplyFilter ==
    /\ fpc = "idle"
    /\ fout' = fetch_dashboards(fl, fnames)
    /\ fpc' = "done"
    /\ UNCHANGED <<fl, fnames, mainvars, normvars>>

InitFilter == MainIdle /\ NormIdle /\ FilterInit

SpecFilter == InitFilter /\ [][ApplyFilter]_vars

\* ------------------------------------------------------------- the claims
\* the mode main() runs in: --dashboard wins over --list-dashboards
Mode ==
    IF args_dashboard # <<>> THEN "selective"
    ELSE IF args_list_dashboards THEN "list" ELSE "bulk"

ExportMode == Mode \in {"selective", "bulk"}

AtLoopHead == pc \in {"selective", "bulk"}

MidItem == pc \in {"selective_export", "selective_write", "selective_count",
                   "bulk_export", "bulk_write", "bulk_count"}

Uninterrupted == interrupted_in = "none"

AllDicts(list) == \A n \in 1..Len(list) : list[n].isdict

\* a summary carries a usable slug: the key is there and is not empty
HasSlug(d) == Has(d.items, "slug") /\ Lookup(d.items, "slug") \notin {"", "null"}

\* a summary is custom: no system key, or a falsy one
IsCustom(d) ==
    ~Has(d.items, "system") \/ Lookup(d.items, "system") \in {"false", "null", ""}

SlugsOf(list) == [n \in 1..Len(list) |-> Lookup(list[n].items, "slug")]

\* the detail requests the first n items of the running loop call for
RequestsFor(n) ==
    IF Mode = "selective" THEN SubSeq(args_dashboard, 1, n)
    ELSE SlugsOf(SelectSeq(SubSeq(custom_dashboards, 1, n), HasSlug))

NumItems == IF Mode = "selective" THEN Len(args_dashboard) ELSE Len(custom_dashboards)

LoopRan == Mode = "selective" \/ (Mode = "bulk" /\ custom_dashboards # <<>>)

\* C1: in both export loops the items are taken once each, in order: at the
\* loop head the i-1 items before the current one have each sent their one
\* detail request (none for a bulk summary without slug) and added one to
\* exactly one counter; inside an item the current one has sent its request
\* and is not yet counted; whatever the items' outcomes, a run that is not
\* interrupted reaches the end of the list with success_count +
\* failure_count equal to the number of items.
C1_EachItemOnce ==
    ExportMode =>
        /\ AtLoopHead =>
              /\ i \in 1..(NumItems + 1)
              /\ success_count + failure_count = i - 1
              /\ requests = RequestsFor(i - 1)
        /\ MidItem =>
              /\ i \in 1..NumItems
              /\ success_count + failure_count = i - 1
              /\ requests = RequestsFor(i)
        /\ (pc = "done" /\ Uninterrupted /\ LoopRan /\ exit_code \in {0, 1}) =>
              /\ success_count + failure_count = NumItems
              /\ requests = RequestsFor(NumItems)

\* two slugs, the first fetch fails, the second is fetched and exported
C1_Witness ==
    /\ pc = "done" /\ exit_code = 1
    /\ args_dashboard = <<"a", "b">>
    /\ requests = <<"a", "b">>
    /\ failure_count = 1 /\ success_count = 1
    /\ Len(exports) = 1 /\ exports[1].outcome = "ok"
    /\ Get(exports[1].detail, "slug", "unknown") = "b"

\* C2 as stated: an export run that is not interrupted and whose list holds
\* only objects exits non-zero exactly when the failure counter is above 0.
C2_ExitIffFailures ==
    (pc = "done" /\ ExportMode /\ Uninterrupted /\ AllDicts(dashboards.list)) =>
        (exit_code # 0 <=> failure_count > 0)

\* C2 amended: an export run exits non-zero exactly when the failure counter
\* is above 0, or the bulk list request failed, or the run was aborted: by
\* the user's interrupt (status 130) or by an unexpected error (status 1: a
\* list element that is no object); the status is 130 exactly when
\* interrupted, and a bulk run without custom dashboards exits 0.
C2_ExitAmended ==
    (pc = "done" /\ ExportMode) =>
        /\ exit_code \in {0, 1, 130}
        /\ exit_code = 130 <=> ~Uninterrupted
        /\ exit_code # 0 <=>
              \/ failure_count > 0
              \/ dashboards.isNone
              \/ ~AllDicts(dashboards.list)
              \/ ~Uninterrupted

\* the bulk list request failed: status 1 with no failure counted
C2_Witness ==
    /\ pc = "done" /\ Mode = "bulk" /\ Uninterrupted
    /\ dashboards.isNone /\ exit_code = 1 /\ failure_count = 0

\* a run with failures counted ends with status 1
C2_WitnessFailures ==
    /\ pc = "done" /\ ExportMode /\ Uninterrupted
    /\ failure_count > 0 /\ success_count > 0 /\ exit_code = 1

\* C3: list mode sends no detail request and writes no file; a run that is
\* not interrupted exits 1 when the list request failed, 0 when it returned
\* no dashboards and 0 when it returned one or more.
C3_ListMode ==
    Mode = "list" =>
        /\ requests = <<>> /\ files = {} /\ exports = <<>>
        /\ (pc = "done" /\ Uninterrupted) =>
              /\ list_requests = 1
              /\ dashboards.isNone => exit_code = 1
              /\ (~dashboards.isNone /\ dashboards.list = <<>>) => exit_code = 0
              /\ (~dashboards.isNone /\ dashboards.list # <<>> /\ AllDicts(dashboards.list))
                    => exit_code = 0

\* the list request succeeded with no dashboards: status 0
C3_Witness ==
    /\ pc = "done" /\ Mode = "list" /\ Uninterrupted
    /\ ~dashboards.isNone /\ dashboards.list = <<>> /\ exit_code = 0

\* the detail requests bulk mode owes for a list: the slugs of the custom
\* summaries that carry one, in list order
C4_Expected ==
    IF dashboards.isNone \/ ~AllDicts(dashboards.list) THEN <<>>
    ELSE SlugsOf(SelectSeq(dashboards.list, LAMBDA d : IsCustom(d) /\ HasSlug(d)))

C4_MissingSlug ==
    IF dashboards.isNone \/ ~AllDicts(dashboards.list) THEN 0
    ELSE Len(SelectSeq(dashboards.list, LAMBDA d : IsCustom(d) /\ ~HasSlug(d)))

\* C4: in bulk mode the detail requests sent so far are a prefix of the
\* slugs of the summaries with a falsy `system` and a non-empty `slug`, in
\* list order, so none is sent for a system summary; a run that is not
\* interrupted sends them all, and each custom summary without slug is
\* counted as one failure with no request.
C4_BulkRequests ==
    Mode = "bulk" =>
        /\ Len(requests) <= Len(C4_Expected)
        /\ requests = SubSeq(C4_Expected, 1, Len(requests))
        /\ (pc = "done" /\ Uninterrupted) =>
              /\ requests = C4_Expected
              /\ failure_count >= C4_MissingSlug
              /\ success_count <= Len(requests)
              /\ success_count + failure_count = Len(requests) + C4_MissingSlug

\* a system summary and a custom one without slug: no request, one failure
C4_Witness ==
    /\ pc = "done" /\ Mode = "bulk" /\ Uninterrupted
    /\ Len(dashboards.list) = 2
    /\ \E n \in 1..2 : Get(dashboards.list[n].items, "system", "false") = "true"
    /\ requests = <<>> /\ failure_count = 1 /\ exit_code = 1

\* a system summary, then a custom one with a slug: one request
C4_WitnessFetch ==
    /\ pc = "done" /\ Mode = "bulk" /\ Uninterrupted
    /\ Len(dashboards.list) = 2
    /\ Get(dashboards.list[1].items, "system", "false") = "true"
    /\ requests = <<"b">> /\ success_count = 1

\* the position of key k in the dict d
KeyPos(d, k) == CHOOSE n \in 1..Len(d) : d[n][1] = k

\* the position of k in the sequence s of distinct elements, 0 when absent
SeqPos(s, k) == IF \E n \in 1..Len(s) : s[n] = k
                THEN CHOOSE n \in 1..Len(s) : s[n] = k ELSE 0

\* C5: the exported mapping has exactly the keys of the detail that are not
\* id, created, modified, last_visited, favorite, is_homepage,
\* is_default_home or system, each once and each with the value it had.
C5_KeySet ==
    npc = "done" =>
        /\ Keys(nout) = Keys(nd) \ {"id", "created", "modified", "last_visited", "favorite",
                                    "is_homepage", "is_default_home", "system"}
        /\ Cardinality(Keys(nout)) = Len(nout)
        /\ \A k \in Keys(nout) : Lookup(nout, k) = Lookup(nd, k)

\* a detail with two excluded keys around a kept one
C5_Witness ==
    /\ npc = "done"
    /\ KeyOrder(nd) = <<"system", "slug", "id">>
    /\ nout = <<<<"slug", "v2">>>>

\* C6: in the exported mapping a key of the list enabled, permissions,
\* queries, name, slug, sections, visible, controls, description, labels
\* comes before every key that is not of the list; two keys of the list
\* stand in the list's order whatever their order in the detail (so enabled
\* is before labels); two keys outside the list keep the order they had in
\* the detail.
C6_KeyOrder ==
    npc = "done" =>
        LET preferred == <<"enabled", "permissions", "queries", "name", "slug",
                           "sections", "visible", "controls", "description", "labels">>
        IN  \A p, q \in 1..Len(nout) :
              p < q =>
                LET a == nout[p][1]
                    b == nout[q][1]
                IN  /\ SeqPos(preferred, a) = 0 => SeqPos(preferred, b) = 0
                    /\ (SeqPos(preferred, a) # 0 /\ SeqPos(preferred, b) # 0)
                          => SeqPos(preferred, a) < SeqPos(preferred, b)
                    /\ (SeqPos(preferred, a) = 0 /\ SeqPos(preferred, b) = 0)
                          => KeyPos(nd, a) < KeyPos(nd, b)

\* labels before enabled in the detail, after it in the export, an unlisted
\* key last
C6_Witness ==
    /\ npc = "done"
    /\ KeyOrder(nd) = <<"theme", "labels", "enabled">>
    /\ KeyOrder(nout) = <<"enabled", "labels", "theme">>

\* two unlisted keys keep their order behind a listed one
C6_WitnessRest ==
    /\ npc = "done"
    /\ KeyOrder(nd) = <<"theme", "owner", "name">>
    /\ KeyOrder(nout) = <<"name", "theme", "owner">>

\* C7: for a list the server returned, a filter that was given (any set of
\* names, the empty one too) yields the summaries whose name is in the set,
\* in their order, and never a failure; without a filter the list comes
\* back unchanged.
C7_NameFilter ==
    (fpc = "done" /\ fl.status = 200 /\ fl.islist) =>
        /\ ~fout.isNone
        /\ fnames.isNone => fout.list = fl.list
        /\ ~fnames.isNone =>
              fout.list = SelectSeq(fl.list,
                                    LAMBDA d : Has(d.items, "name")
                                               /\ Lookup(d.items, "name") \in fnames.names)

\* C7 for the filters that are not empty
C7_NonEmptyFilter ==
    (fpc = "done" /\ fl.status = 200 /\ fl.islist /\ fnames.names # {}) =>
        /\ ~fout.isNone
        /\ fout.list = SelectSeq(fl.list,
                                 LAMBDA d : Has(d.items, "name")
                                            /\ Lookup(d.items, "name") \in fnames.names)

\* C8: an export run that is not interrupted and whose list holds only
\* objects has logged its summary line, with the counters, when it ends.
C8_SummaryAlways ==
    (pc = "done" /\ ExportMode /\ Uninterrupted /\ AllDicts(dashboards.list)) =>
        summary_log = <<<<success_count, failure_count>>>>

\* C9: an interrupt ends the run with status 130 and is taken between
\* items only: never with an item fetched and not yet counted, nor with a
\* file opened and not yet written.
C9_InterruptBetweenItems ==
    (pc = "done" /\ ~Uninterrupted) =>
        /\ exit_code = 130
        /\ interrupted_in \in {"start", "selective", "bulk"}
        /\ \A n \in 1..Len(exports) : exports[n].outcome # "open"

\* the file name an export call owes: the second of its clock reading and
\* the detail's slug, `unknown` without one
C10_Name(e) ==
    <<e.at \div TicksPerSecond,
      IF Has(e.detail, "slug") THEN Lookup(e.detail, "slug") ELSE "unknown">>

C10_Complete == {f \in files : f.complete}

C10_Ok == {n \in 1..Len(exports) : exports[n].outcome = "ok"}

\* C10 as stated: after an export run that is not interrupted and in which
\* every export call that opened its file succeeded, the directory holds as
\* many files as the success counter says.
C10_FilesEqualSuccesses ==
    (pc = "done" /\ ExportMode /\ Uninterrupted
       /\ \A n \in 1..Len(exports) : exports[n].outcome = "ok") =>
        Cardinality(files) = success_count

\* C10 amended: every file of the directory is named <second>-<slug>.json
\* (slug `unknown` when the detail has none) after an export call that
\* opened it, and there is one file per such name: a call overwrites the
\* file an earlier call of the same slug and second left.  A file is
\* complete exactly when the last call on its name succeeded.  After a run
\* that is not interrupted the success counter is the number of successful
\* calls, the complete files are never more than it, and as many when no
\* two calls shared a file name.
C10_FilesAmended ==
    /\ {f.name : f \in files} = {C10_Name(exports[n]) : n \in 1..Len(exports)}
    /\ Cardinality({f.name : f \in files}) = Cardinality(files)
    /\ \A f \in files :
          LET last == CHOOSE n \in 1..Len(exports) :
                         /\ C10_Name(exports[n]) = f.name
                         /\ \A m \in 1..Len(exports) :
                               C10_Name(exports[m]) = f.name => m <= n
          IN  /\ f.complete <=> exports[last].outcome = "ok"
              /\ f.complete => f.data = ordered_data(exports[last].detail)
    /\ (pc = "done" /\ ExportMode /\ Uninterrupted) =>
          /\ success_count = Cardinality(C10_Ok)
          /\ Cardinality(C10_Complete) <= success_count
          /\ (\A m, n \in 1..Len(exports) :
                 m # n => C10_Name(exports[m]) # C10_Name(exports[n]))
                => Cardinality(C10_Complete) = success_count

\* two successful exports of a detail without slug within one second: one
\* file named unknown, two successes
C10_Witness ==
    /\ pc = "done" /\ ExportMode /\ Uninterrupted
    /\ success_count = 2 /\ failure_count = 0
    /\ Cardinality(files) = 1
    /\ \E f \in files : f.name[2] = "unknown" /\ f.complete

====
